---- MODULE Spec2Model ----
(***************************************************************************)
(* Model of media/base/widevine_encryption_key_source.cc:                  *)
(* WidevineEncryptionKeySource::GetKey called by several threads, the      *)
(* FetchKeys retry loop it runs under lock_, and the request signing,      *)
(* response decoding and key extraction FetchKeys drives.                  *)
(*                                                                         *)
(* Strings are sequences of character codes (ASCII), byte strings are      *)
(* sequences of 0..255.  JSON dictionaries are records; a field holds     *)
(* Some(value), or Absent when the dictionary does not have it.           *)
(***************************************************************************)
EXTENDS Integers, Sequences, FiniteSets, TLC

\* ------------------------------------------------------------------ bounds
NumThreads == 2
MaxCalls == 2
MaxContentIdLen == 2

\* ------------------------------------------------------- program constants
kNumTransientErrorRetries == 5
kFirstRetryDelayMilliseconds == 1000
NUM_VALID_TRACK_TYPES == 3

Threads == 1..NumThreads

\* An optional JSON field: Absent, or Some(value).
Absent == [has |-> FALSE]

Some(v) == [has |-> TRUE, v |-> v]

\* ------------------------------------------------------------------ Base64
\* base::Base64Encode / base::Base64Decode, the standard alphabet with '='
\* padding, on sequences of bytes and of character codes.
B64Char(n) ==
  IF n < 26 THEN 65 + n
  ELSE IF n < 52 THEN 97 + (n - 26)
  ELSE IF n < 62 THEN 48 + (n - 52)
  ELSE IF n = 62 THEN 43 ELSE 47

B64Index(c) ==
  IF c >= 65 /\ c <= 90 THEN c - 65
  ELSE IF c >= 97 /\ c <= 122 THEN c - 97 + 26
  ELSE IF c >= 48 /\ c <= 57 THEN c - 48 + 52
  ELSE IF c = 43 THEN 62
  ELSE IF c = 47 THEN 63 ELSE -1

PadChar == 61

RECURSIVE Base64Encode(_)
Base64Encode(bytes) ==
  IF Len(bytes) = 0 THEN << >>
  ELSE IF Len(bytes) = 1 THEN
    << B64Char(bytes[1] \div 4), B64Char((bytes[1] % 4) * 16), PadChar, PadChar >>
  ELSE IF Len(bytes) = 2 THEN
    << B64Char(bytes[1] \div 4),
       B64Char((bytes[1] % 4) * 16 + bytes[2] \div 16),
       B64Char((bytes[2] % 16) * 4), PadChar >>
  ELSE
    << B64Char(bytes[1] \div 4),
       B64Char((bytes[1] % 4) * 16 + bytes[2] \div 16),
       B64Char((bytes[2] % 16) * 4 + bytes[3] \div 64),
       B64Char(bytes[3] % 64) >>
    \o Base64Encode(SubSeq(bytes, 4, Len(bytes)))

\* One group of four characters; last is TRUE for the final group, the only
\* one that may be padded.
B64Group(q, last) ==
  LET a == B64Index(q[1])
      b == B64Index(q[2])
      c == B64Index(q[3])
      d == B64Index(q[4])
  IN IF a < 0 \/ b < 0 THEN [ok |-> FALSE, bytes |-> << >>]
     ELSE IF q[3] = PadChar /\ q[4] = PadChar /\ last
       THEN [ok |-> TRUE, bytes |-> << a * 4 + b \div 16 >>]
     ELSE IF c < 0 THEN [ok |-> FALSE, bytes |-> << >>]
     ELSE IF q[4] = PadChar /\ last
       THEN [ok |-> TRUE,
             bytes |-> << a * 4 + b \div 16, (b % 16) * 16 + c \div 4 >>]
     ELSE IF d < 0 THEN [ok |-> FALSE, bytes |-> << >>]
     ELSE [ok |-> TRUE,
           bytes |-> << a * 4 + b \div 16, (b % 16) * 16 + c \div 4,
                        (c % 4) * 64 + d >>]

RECURSIVE Base64Decode(_)
Base64Decode(str) ==
  IF Len(str) = 0 THEN [ok |-> TRUE, bytes |-> << >>]
  ELSE IF Len(str) % 4 # 0 THEN [ok |-> FALSE, bytes |-> << >>]
  ELSE LET g == B64Group(SubSeq(str, 1, 4), Len(str) = 4)
           r == Base64Decode(SubSeq(str, 5, Len(str)))
       IN IF g.ok /\ r.ok THEN [ok |-> TRUE, bytes |-> g.bytes \o r.bytes]
          ELSE [ok |-> FALSE, bytes |-> << >>]

Base64StringToBytes(base64_string) == Base64Decode(base64_string)

\* -------------------------------------------------------------- FillRequest
\* JSONWriter output of the request dictionary (keys in std::map order):
\* {"content_id":"<base64>","drm_types":["WIDEVINE"],"policy":"",
\*  "tracks":[{"type":"SD"},{"type":"HD"},{"type":"AUDIO"}]}
RequestHead ==
  <<123, 34, 99, 111, 110, 116, 101, 110, 116, 95, 105, 100, 34, 58, 34>>

RequestTail ==
  <<34, 44, 34, 100, 114, 109, 95, 116, 121, 112, 101, 115, 34, 58, 91, 34,
    87, 73, 68, 69, 86, 73, 78, 69, 34, 93, 44, 34, 112, 111, 108, 105, 99,
    121, 34, 58, 34, 34, 44, 34, 116, 114, 97, 99, 107, 115, 34, 58, 91, 123,
    34, 116, 121, 112, 101, 34, 58, 34, 83, 68, 34, 125, 44, 123, 34, 116,
    121, 112, 101, 34, 58, 34, 72, 68, 34, 125, 44, 123, 34, 116, 121, 112,
    101, 34, 58, 34, 65, 85, 68, 73, 79, 34, 125, 93, 125>>

FillRequest(content_id) ==
  RequestHead \o Base64Encode(content_id) \o RequestTail

\* The content identifiers the signing specification constructs objects
\* with: every byte string of up to MaxContentIdLen bytes over ContentBytes.
ContentBytes == {0, 104, 255}

ContentIds == UNION { [1..n -> ContentBytes] : n \in 0..MaxContentIdLen }

\* ---------------------------------------------------------------- Status
StatusOK == [code |-> "OK", msg |-> "OK"]

Status(code, msg) == [code |-> code, msg |-> msg]

StatusIsOk(status) == status.code = "OK"

\* -------------------------------------------------------------- SignRequest
\* The signer is an external collaborator: GenerateSignature either fails or
\* yields a signature over the bytes it is given (here a two-byte digest).
GenerateSignature(bytes) ==
  << Len(bytes) % 256, IF Len(bytes) > 0 THEN bytes[Len(bytes)] ELSE 0 >>

SignerName == "widevine_test"

NoMessage == [request |-> << >>, signature |-> << >>, signer |-> ""]

\* Mutant: the signer is given the already-encoded request.
SignedBytesEncoded(request) == Base64Encode(request)

\* The bytes SignRequest hands to signer_->GenerateSignature.
SignedBytes(request) == request

\* Mutant: the signer's failure is ignored.
SignRequestIgnoringFailure(request, signer_ok) ==
  [status |-> StatusOK,
   signed_request |->
     [request |-> Base64Encode(request),
      signature |-> Base64Encode(GenerateSignature(SignedBytes(request))),
      signer |-> SignerName],
   signed |-> SignedBytes(request)]

\* SignRequest(request, &signed_request); signer_ok is whether the signer
\* produces a signature.  signed is what was passed to GenerateSignature.
SignRequest(request, signer_ok) ==
  IF ~signer_ok
  THEN [status |-> Status("INTERNAL_ERROR", "Signature generation failed."),
        signed_request |-> NoMessage,
        signed |-> SignedBytes(request)]
  ELSE [status |-> StatusOK,
        signed_request |->
          [request |-> Base64Encode(request),
           signature |-> Base64Encode(GenerateSignature(SignedBytes(request))),
           signer |-> SignerName],
        signed |-> SignedBytes(request)]

\* ------------------------------------------------------------- track types
TRACK_TYPE_UNKNOWN == "TRACK_TYPE_UNKNOWN"
TRACK_TYPE_SD == "TRACK_TYPE_SD"
TRACK_TYPE_HD == "TRACK_TYPE_HD"
TRACK_TYPE_AUDIO == "TRACK_TYPE_AUDIO"

ValidTrackTypes == {TRACK_TYPE_SD, TRACK_TYPE_HD, TRACK_TYPE_AUDIO}

GetTrackTypeFromString(track_type_str) ==
  IF track_type_str = "SD" THEN TRACK_TYPE_SD
  ELSE IF track_type_str = "HD" THEN TRACK_TYPE_HD
  ELSE IF track_type_str = "AUDIO" THEN TRACK_TYPE_AUDIO
  ELSE TRACK_TYPE_UNKNOWN

\* The box wrapped around the protection-system-specific data.
PsshBoxFromPsshData(pssh_data) ==
  <<112, 115, 115, 104, Len(pssh_data)>> \o pssh_data

\* --------------------------------------------------- server reply documents
\* Base64 strings used in the replies.
B64One == <<65, 81, 61, 61>>          \* "AQ==", the byte 1
B64Two == <<65, 103, 61, 61>>         \* "Ag==", the byte 2
B64Three == <<65, 119, 61, 61>>       \* "Aw==", the byte 3
B64Data == <<65, 81, 73, 61>>         \* "AQI=", the bytes 1 2
B64Bad == <<33>>                      \* "!", not Base64
B64Empty == << >>                     \* "", the empty byte string

Pssh(drm_type, data) ==
  [json |-> "dict", drm_type |-> Some(drm_type), data |-> Some(data)]

GoodPssh == << Pssh("WIDEVINE", B64Data) >>

Track(type, key, key_id, pssh) ==
  [json |-> "dict", type |-> Some(type), key |-> key, key_id |-> key_id,
   pssh |-> Some(pssh)]

\* A well-formed track entry; each type has its own key.
GoodTrack(type) ==
  Track(type,
        Some(IF type = "SD" THEN B64One ELSE IF type = "HD" THEN B64Two ELSE B64Three),
        Some(B64Two), GoodPssh)

License(status, tracks) == [json |-> "dict", status |-> status, tracks |-> tracks]

InvalidJson == [json |-> "invalid"]

\* The license documents a server may send.  A document's text is the single
\* byte holding its index in this table; every other text is not JSON.
LicenseTable == <<
  (* 1*) License(Some("INTERNAL_ERROR"), Absent),
  (* 2*) License(Some("UNAUTHORIZED"), Absent),
  (* 3*) License(Some("OK"),
                 Some(<< GoodTrack("SD"), GoodTrack("HD"), GoodTrack("AUDIO") >>)),
  (* 4*) License(Some("OK"),
                 Some(<< GoodTrack("AUDIO"),
                         Track("SD", Some(B64Bad), Some(B64Two), GoodPssh),
                         GoodTrack("HD") >>)),
  (* 5*) License(Some("OK"),
                 Some(<< GoodTrack("SD"), GoodTrack("HD"), GoodTrack("XX") >>)),
  (* 6*) License(Some("OK"),
                 Some(<< GoodTrack("SD"), GoodTrack("SD"), GoodTrack("HD") >>)),
  (* 7*) License(Some("OK"), Some(<< GoodTrack("SD"), GoodTrack("HD") >>)),
  (* 8*) License(Some("OK"),
                 Some(<< Track("SD", Some(B64One), Some(B64Two),
                               << Pssh("OTHER", B64Data) >>),
                         GoodTrack("HD"), GoodTrack("AUDIO") >>)),
  (* 9*) License(Some("OK"),
                 Some(<< Track("SD", Some(B64One), Some(B64Two),
                               << Pssh("WIDEVINE", B64Data),
                                  Pssh("WIDEVINE", B64One) >>),
                         GoodTrack("HD"), GoodTrack("AUDIO") >>)),
  (*10*) License(Some("OK"),
                 Some(<< Track("SD", Some(B64One), Some(B64Two), << >>),
                         GoodTrack("HD"), GoodTrack("AUDIO") >>)),
  (*11*) License(Some("OK"),
                 Some(<< Track("SD", Some(B64Empty), Some(B64Two), GoodPssh),
                         GoodTrack("HD"), GoodTrack("AUDIO") >>)),
  (*12*) License(Absent, Absent),
  (*13*) License(Some("OK"), Absent)
>>

\* Named entries of LicenseTable.
TransientLicense == 1
FatalStatusLicense == 2
ValidLicense == 3
UnknownTypeLicense == 5
DuplicateTypeLicense == 6
ForeignDrmLicense == 8
TwoPsshLicense == 9
NoPsshLicense == 10

\* base::JSONReader::Read on a license text.
JSONRead(text) ==
  IF Len(text) = 1 /\ text[1] \in 1..Len(LicenseTable)
  THEN LicenseTable[text[1]] ELSE InvalidJson

LicenseText(n) == << n >>

Envelope(response) == [json |-> "dict", response |-> response]

\* What one http_fetcher_->Post can come back with: a transport failure, or
\* a raw response (given as JSONReader::Read parses it).
EnvelopeReplies ==
  << [ok |-> FALSE, raw_response |-> InvalidJson],
     [ok |-> TRUE, raw_response |-> InvalidJson],
     [ok |-> TRUE, raw_response |-> Envelope(Absent)],
     [ok |-> TRUE, raw_response |-> Envelope(Some(B64Bad))],
     [ok |-> TRUE, raw_response |-> Envelope(Some(Base64Encode(<<200>>)))] >>

ReplyTable ==
  EnvelopeReplies
  \o [n \in 1..Len(LicenseTable) |->
        [ok |-> TRUE, raw_response |-> Envelope(Some(Base64Encode(LicenseText(n))))]]

\* Named entries of ReplyTable.
TransportFailureReply == 1
NotJsonReply == 2
NoResponseFieldReply == 3
BadBase64Reply == 4
NotJsonLicenseReply == 5

Replies == 1..Len(ReplyTable)

ReplyOfLicense(n) == Len(EnvelopeReplies) + n

\* ----------------------------------------------------------- DecodeResponse
\* DecodeResponse(raw_response, &response): the license text carried by the
\* "response" field of the envelope.
DecodeResponse(raw_response) ==
  IF raw_response.json = "invalid" THEN [ok |-> FALSE, response |-> << >>]
  ELSE IF raw_response.json # "dict" THEN [ok |-> FALSE, response |-> << >>]
  ELSE IF ~raw_response.response.has THEN [ok |-> FALSE, response |-> << >>]
  ELSE LET d == Base64Decode(raw_response.response.v)
       IN IF d.ok THEN [ok |-> TRUE, response |-> d.bytes]
          ELSE [ok |-> FALSE, response |-> << >>]

\* ------------------------------------------------------ ExtractEncryptionKey
NoKeyData == [ok |-> FALSE, key |-> << >>, key_id |-> << >>]

\* GetKeyAndKeyId(track_dict, &key, &key_id)
GetKeyAndKeyId(track_dict) ==
  IF ~track_dict.key.has THEN NoKeyData
  ELSE LET k == Base64StringToBytes(track_dict.key.v)
       IN IF ~k.ok THEN NoKeyData
          ELSE IF ~track_dict.key_id.has THEN NoKeyData
          ELSE LET id == Base64StringToBytes(track_dict.key_id.v)
               IN IF ~id.ok THEN NoKeyData
                  ELSE [ok |-> TRUE, key |-> k.bytes, key_id |-> id.bytes]

\* Which entry of the "pssh" list GetPsshData reads.
PsshIndex == 1

\* Whether DCHECK_EQ(1u, pssh_list->GetSize()) passes.
PsshSizeExpected(size) == size = 1

\* Mutant: any drm_type is taken.
DrmTypeExpectedAny(drm_type) == TRUE

\* The negation of "if (drm_type != "WIDEVINE")".
DrmTypeExpected(drm_type) == drm_type = "WIDEVINE"

\* GetPsshData(track_dict, &pssh_data).  dcheck is whether DCHECKs are
\* compiled in; a failed DCHECK aborts the process (crashed).
GetPsshData(track_dict, dcheck) ==
  LET fail == [ok |-> FALSE, crashed |-> FALSE, pssh_data |-> << >>]
  IN IF ~track_dict.pssh.has THEN fail
     ELSE LET pssh_list == track_dict.pssh.v
          IN IF dcheck /\ ~PsshSizeExpected(Len(pssh_list))
             THEN [ok |-> FALSE, crashed |-> TRUE, pssh_data |-> << >>]
             ELSE IF Len(pssh_list) < PsshIndex THEN fail
             ELSE LET pssh_dict == pssh_list[PsshIndex]
                  IN IF pssh_dict.json # "dict" THEN fail
                     ELSE IF ~pssh_dict.drm_type.has THEN fail
                     ELSE IF ~DrmTypeExpected(pssh_dict.drm_type.v) THEN fail
                     ELSE IF ~pssh_dict.data.has THEN fail
                     ELSE LET d == Base64StringToBytes(pssh_dict.data.v)
                          IN IF ~d.ok THEN fail
                             ELSE [ok |-> TRUE, crashed |-> FALSE,
                                   pssh_data |-> d.bytes]

EmptyMap == [x \in {} |-> 0]

\* Mutant: a type already in the map is not noticed.
AlreadyStoredNever(map, track_type) == FALSE

\* encryption_key_map_.find(track_type) != encryption_key_map_.end()
AlreadyStored(map, track_type) == track_type \in DOMAIN map

\* encryption_key_map_[track_type] = encryption_key
MapInsert(map, track_type, encryption_key) ==
  [x \in DOMAIN map \cup {track_type} |->
     IF x = track_type THEN encryption_key ELSE map[x]]

\* The loop of ExtractEncryptionKey over tracks[i..], storing into map as it
\* goes.
RECURSIVE ExtractTracks(_, _, _, _)
ExtractTracks(tracks, i, map, dcheck) ==
  IF i > Len(tracks) THEN [ok |-> TRUE, crashed |-> FALSE, map |-> map]
  ELSE
    LET track_dict == tracks[i]
        fail == [ok |-> FALSE, crashed |-> FALSE, map |-> map]
        crash == [ok |-> FALSE, crashed |-> TRUE, map |-> map]
    IN IF track_dict.json # "dict" THEN fail
       ELSE IF ~track_dict.type.has THEN fail
       ELSE
         LET track_type == GetTrackTypeFromString(track_dict.type.v)
         IN IF dcheck /\ track_type = TRACK_TYPE_UNKNOWN THEN crash
            ELSE IF AlreadyStored(map, track_type) THEN fail
            ELSE
              LET kk == GetKeyAndKeyId(track_dict)
              IN IF ~kk.ok THEN fail
                 ELSE
                   LET pd == GetPsshData(track_dict, dcheck)
                   IN IF pd.crashed THEN crash
                      ELSE IF ~pd.ok THEN fail
                      ELSE ExtractTracks(
                             tracks, i + 1,
                             MapInsert(map, track_type,
                                       [key |-> kk.key, key_id |-> kk.key_id,
                                        pssh |-> PsshBoxFromPsshData(pd.pssh_data)]),
                             dcheck)

\* Mutant: every non-OK status counts as transient.
IsTransientStatusAnyNonOk(license_status) == TRUE

\* Whether a non-OK license_status is the transient one.
IsTransientStatus(license_status) == license_status = "INTERNAL_ERROR"

\* ExtractEncryptionKey(response, &transient_error) on encryption_key_map_
\* = map: the return value, *transient_error and the map afterwards.
ExtractEncryptionKey(response, map, dcheck) ==
  LET root == JSONRead(response)
      fail == [ok |-> FALSE, transient_error |-> FALSE, crashed |-> FALSE,
               map |-> map]
  IN IF root.json = "invalid" THEN fail
     ELSE IF root.json # "dict" THEN fail
     ELSE IF ~root.status.has THEN fail
     ELSE IF root.status.v # "OK"
       THEN [ok |-> FALSE, transient_error |-> IsTransientStatus(root.status.v),
             crashed |-> FALSE, map |-> map]
     ELSE IF ~root.tracks.has THEN fail
     ELSE IF ~(Len(root.tracks.v) >= NUM_VALID_TRACK_TYPES) THEN fail
     ELSE LET r == ExtractTracks(root.tracks.v, 1, map, dcheck)
          IN [ok |-> r.ok, transient_error |-> FALSE, crashed |-> r.crashed,
              map |-> r.map]

\* ------------------------------------------------------------------- state
VARIABLES
  dcheck_is_on,         \* the build: whether DCHECKs are compiled in
  crashed,              \* a DCHECK failed and aborted the process
  content_id_,          \* constructor argument
  key_fetched_,         \* member
  encryption_key_map_,  \* member: TrackType -> EncryptionKey
  lock_,                \* member: 0 when free, else the thread holding it
  pc,                   \* per thread: where it is in GetKey / FetchKeys
  key,                  \* per thread: the caller's EncryptionKey (*key)
  status,               \* per thread: GetKey's local status
  message,              \* per thread: FetchKeys' local message
  i,                    \* per thread: FetchKeys' loop counter
  sleep_duration,       \* per thread: FetchKeys' local sleep_duration
  calls,                \* history: GetKey calls made so far
  num_runs,             \* history: FetchKeys runs started
  ok_runs,              \* history: FetchKeys runs that returned OK
  failed_runs,          \* history: FetchKeys runs that returned an error
  run,                  \* history, per thread: its FetchKeys run in progress
  key_src,              \* history: the FetchKeys run that stored each map entry
  seen                  \* history, per thread: runs completed when it called

vars == << dcheck_is_on, crashed, content_id_, key_fetched_,
           encryption_key_map_, lock_, pc, key, status, message,
           i, sleep_duration, calls, num_runs, ok_runs,
           failed_runs, run, key_src, seen >>

NoStatus == [code |-> "NONE", msg |-> ""]

NoKey == [key |-> << >>, key_id |-> << >>, pssh |-> << >>]

\* replies: the replies to the run's posts, in order; sleeps: the durations
\* slept, in order; signed: the bytes given to the signer; signer_ok: whether
\* it signed; map0: encryption_key_map_ when the run started.
\* active: the thread is between starting FetchKeys and releasing lock_.
NoRun == [active |-> FALSE, replies |-> << >>, sleeps |-> << >>,
          signed |-> << >>, signer_ok |-> FALSE, map0 |-> EmptyMap]

NoneSeen == [done |-> FALSE, ok |-> FALSE]

\* The content identifier the object is constructed with.
DefaultContentId == <<104, 105, 33>>

Init ==
  /\ dcheck_is_on \in BOOLEAN
  /\ crashed = FALSE
  /\ content_id_ = DefaultContentId
  /\ key_fetched_ = FALSE
  /\ encryption_key_map_ = EmptyMap
  /\ lock_ = 0
  /\ pc = [t \in Threads |-> "idle"]
  /\ key = [t \in Threads |-> NoKey]
  /\ status = [t \in Threads |-> StatusOK]
  /\ message = [t \in Threads |-> NoMessage]
  /\ i = [t \in Threads |-> 0]
  /\ sleep_duration = [t \in Threads |-> 0]
  /\ calls = 0
  /\ num_runs = 0
  /\ ok_runs = 0
  /\ failed_runs = 0
  /\ run = [t \in Threads |-> NoRun]
  /\ key_src = EmptyMap
  /\ seen = [t \in Threads |-> NoneSeen]

\* -------------------------------------------------------------------- GetKey
\* Whether GetKey goes on to lock / fetch, given the key_fetched_ it read.
FirstCheck(fetched) == ~fetched

\* Mutant: no second check under the lock.
SecondCheckSkipped(fetched) == TRUE

SecondCheck(fetched) == ~fetched

\* Mutant: the flag is never set.
KeyFetchedNever(fetch_status) == FALSE

\* key_fetched_ after "if (status.ok()) key_fetched_ = true;" (it was false).
KeyFetchedAfter(fetch_status) == StatusIsOk(fetch_status)

\* A thread calls GetKey(track_type, &key) with a fresh EncryptionKey:
\* Status status; if (!key_fetched_) {   (key_fetched_ read without the lock).
\* track_type is not read before the lookup at the end of GetKey, and Return
\* draws it there.
Call(t) ==
  /\ ~crashed
  /\ pc[t] = "idle"
  /\ calls < MaxCalls
  /\ calls' = calls + 1
  /\ key' = [key EXCEPT ![t] = NoKey]
  /\ status' = [status EXCEPT ![t] = StatusOK]
  /\ seen' = [seen EXCEPT ![t] = [done |-> ok_runs + failed_runs > 0,
                                  ok |-> ok_runs > 0]]
  /\ pc' = [pc EXCEPT ![t] = IF FirstCheck(key_fetched_) THEN "lock" ELSE "lookup"]
  /\ UNCHANGED << dcheck_is_on, crashed, content_id_, key_fetched_,
                  encryption_key_map_, lock_, message, i, sleep_duration,
                  num_runs, ok_runs, failed_runs, run, key_src >>

\* Mutant: the lock is taken whoever holds it.
LockAvailableAlways(holder) == TRUE

\* Whether base::AutoLock's constructor gets lock_ (holder: 0 when free).
LockAvailable(holder) == holder = 0

\* base::AutoLock auto_lock(lock_); if (!key_fetched_) { status = FetchKeys();
\* (the second check, under the lock; FetchKeys starts when it passes)
Acquire(t) ==
  /\ ~crashed
  /\ pc[t] = "lock"
  /\ LockAvailable(lock_)
  /\ lock_' = t
  /\ IF SecondCheck(key_fetched_)
     THEN /\ pc' = [pc EXCEPT ![t] = "sign"]
          /\ num_runs' = num_runs + 1
          /\ run' = [run EXCEPT ![t] = [NoRun EXCEPT !.active = TRUE,
                                          !.map0 = encryption_key_map_]]
     ELSE /\ pc' = [pc EXCEPT ![t] = "unlock"]
          /\ UNCHANGED << num_runs, run >>
  /\ UNCHANGED << dcheck_is_on, crashed, content_id_, key_fetched_,
                  encryption_key_map_, key, status, message, i,
                  sleep_duration, calls, ok_runs, failed_runs, key_src, seen >>

\* ----------------------------------------------------------------- FetchKeys
\* Mutant: one pass too many.
LoopConditionOffByOne(n) == n <= kNumTransientErrorRetries

\* for (int i = 0; i < kNumTransientErrorRetries; ++i)
LoopCondition(n) == n < kNumTransientErrorRetries

\* if (i != kNumTransientErrorRetries - 1)
ShouldSleep(n) == n # kNumTransientErrorRetries - 1

\* sleep_duration *= 2;
NextSleepDuration(d) == d * 2

ExhaustedStatus ==
  Status("SERVER_ERROR", "Failed to recover from server internal error.")

\* Mutant: a response that fails DecodeResponse is retried.
AttemptRetryingDecodeFailure(reply, map, dcheck) ==
  IF ~reply.ok
  THEN [kind |-> "return", status |-> Status("HTTP_FAILURE", "Post failed."),
        map |-> map]
  ELSE
    LET d == DecodeResponse(reply.raw_response)
    IN IF ~d.ok
       THEN [kind |-> "retry", status |-> NoStatus, map |-> map]
       ELSE
         LET e == ExtractEncryptionKey(d.response, map, dcheck)
         IN IF e.crashed
            THEN [kind |-> "crash", status |-> NoStatus, map |-> e.map]
            ELSE IF e.ok
            THEN [kind |-> "return", status |-> StatusOK, map |-> e.map]
            ELSE IF ~e.transient_error
            THEN [kind |-> "return",
                  status |-> Status("SERVER_ERROR",
                                    "Failed to extract encryption key."),
                  map |-> e.map]
            ELSE [kind |-> "retry", status |-> NoStatus, map |-> e.map]

\* One pass of the loop body up to the backoff: Post, DecodeResponse,
\* ExtractEncryptionKey.  kind "return" ends FetchKeys with status, "retry"
\* goes on to the backoff, "crash" is a failed DCHECK.
Attempt(reply, map, dcheck) ==
  IF ~reply.ok
  THEN [kind |-> "return", status |-> Status("HTTP_FAILURE", "Post failed."),
        map |-> map]
  ELSE
    LET d == DecodeResponse(reply.raw_response)
    IN IF ~d.ok
       THEN [kind |-> "return",
             status |-> Status("SERVER_ERROR", "Failed to decode response."),
             map |-> map]
       ELSE
         LET e == ExtractEncryptionKey(d.response, map, dcheck)
         IN IF e.crashed
            THEN [kind |-> "crash", status |-> NoStatus, map |-> e.map]
            ELSE IF e.ok
            THEN [kind |-> "return", status |-> StatusOK, map |-> e.map]
            ELSE IF ~e.transient_error
            THEN [kind |-> "return",
                  status |-> Status("SERVER_ERROR",
                                    "Failed to extract encryption key."),
                  map |-> e.map]
            ELSE [kind |-> "retry", status |-> NoStatus, map |-> e.map]

\* FetchKeys returns st to GetKey's "status = FetchKeys();".
FetchReturn(t, st) ==
  /\ status' = [status EXCEPT ![t] = st]
  /\ pc' = [pc EXCEPT ![t] = "fetched"]
  /\ ok_runs' = IF StatusIsOk(st) THEN ok_runs + 1 ELSE ok_runs
  /\ failed_runs' = IF StatusIsOk(st) THEN failed_runs ELSE failed_runs + 1
  /\ message' = [message EXCEPT ![t] = NoMessage]
  /\ i' = [i EXCEPT ![t] = 0]
  /\ sleep_duration' = [sleep_duration EXCEPT ![t] = 0]

\* FillRequest, SignRequest and the loop's initialisation.
Sign(t) ==
  /\ ~crashed
  /\ pc[t] = "sign"
  /\ \E signer_ok \in BOOLEAN :
     \E sr \in {SignRequest(FillRequest(content_id_), signer_ok)} :
          /\ run' = [run EXCEPT ![t].signed = sr.signed,
                                ![t].signer_ok = signer_ok]
          /\ IF ~StatusIsOk(sr.status)
             THEN FetchReturn(t, sr.status)
             ELSE /\ message' = [message EXCEPT ![t] = sr.signed_request]
                  /\ i' = [i EXCEPT ![t] = 0]
                  /\ sleep_duration' =
                       [sleep_duration EXCEPT ![t] = kFirstRetryDelayMilliseconds]
                  /\ pc' = [pc EXCEPT ![t] = "post"]
                  /\ UNCHANGED << status, ok_runs, failed_runs >>
  /\ UNCHANGED << dcheck_is_on, crashed, content_id_, key_fetched_,
                  encryption_key_map_, lock_, key, calls,
                  num_runs, key_src, seen >>

\* The loop body: one Post and what FetchKeys makes of the reply.  A failed
\* DCHECK aborts the process: the thread stops at "aborted" and no thread
\* takes a further step.
Post(t) ==
  /\ ~crashed
  /\ pc[t] = "post"
  /\ \E r \in Replies :
     \E a \in {Attempt(ReplyTable[r], encryption_key_map_, dcheck_is_on)} :
          /\ run' = [run EXCEPT ![t].replies = Append(@, r)]
          /\ crashed' = (a.kind = "crash")
          /\ IF a.kind = "crash"
             THEN UNCHANGED << encryption_key_map_, key_src >>
             ELSE /\ encryption_key_map_' = a.map
                  /\ key_src' = [x \in DOMAIN a.map |->
                                   IF x \in DOMAIN key_src THEN key_src[x]
                                   ELSE num_runs]
          /\ IF a.kind = "crash"
             THEN /\ pc' = [pc EXCEPT ![t] = "aborted"]
                  /\ UNCHANGED << status, ok_runs, failed_runs, message, i,
                                  sleep_duration >>
             ELSE IF a.kind = "return"
             THEN FetchReturn(t, a.status)
             ELSE IF ShouldSleep(i[t])
             THEN /\ pc' = [pc EXCEPT ![t] = "sleep"]
                  /\ UNCHANGED << status, ok_runs, failed_runs, message, i,
                                  sleep_duration >>
             ELSE IF LoopCondition(i[t] + 1)
             THEN /\ i' = [i EXCEPT ![t] = @ + 1]
                  /\ UNCHANGED << status, pc, ok_runs, failed_runs, message,
                                  sleep_duration >>
             ELSE FetchReturn(t, ExhaustedStatus)
  /\ UNCHANGED << dcheck_is_on, content_id_, key_fetched_, lock_, key, calls, num_runs, seen >>

\* base::PlatformThread::Sleep(sleep_duration); sleep_duration *= 2; ++i
Sleep(t) ==
  /\ ~crashed
  /\ pc[t] = "sleep"
  /\ run' = [run EXCEPT ![t].sleeps = Append(@, sleep_duration[t])]
  /\ IF LoopCondition(i[t] + 1)
     THEN /\ i' = [i EXCEPT ![t] = @ + 1]
          /\ sleep_duration' =
               [sleep_duration EXCEPT ![t] = NextSleepDuration(@)]
          /\ pc' = [pc EXCEPT ![t] = "post"]
          /\ UNCHANGED << status, ok_runs, failed_runs, message >>
     ELSE FetchReturn(t, ExhaustedStatus)
  /\ UNCHANGED << dcheck_is_on, crashed, content_id_, key_fetched_,
                  encryption_key_map_, lock_, key, calls,
                  num_runs, key_src, seen >>

\* if (status.ok()) key_fetched_ = true;
SetFetched(t) ==
  /\ ~crashed
  /\ pc[t] = "fetched"
  /\ key_fetched_' = KeyFetchedAfter(status[t])
  /\ run' = [run EXCEPT ![t] = [NoRun EXCEPT !.active = TRUE]]
  /\ pc' = [pc EXCEPT ![t] = "unlock"]
  /\ UNCHANGED << dcheck_is_on, crashed, content_id_, encryption_key_map_,
                  lock_, key, status, message, i, sleep_duration,
                  calls, num_runs, ok_runs, failed_runs,
                  key_src, seen >>

\* auto_lock goes out of scope.
Unlock(t) ==
  /\ ~crashed
  /\ pc[t] = "unlock"
  /\ lock_' = 0
  /\ run' = [run EXCEPT ![t] = NoRun]
  /\ pc' = [pc EXCEPT ![t] = "lookup"]
  /\ UNCHANGED << dcheck_is_on, crashed, content_id_, key_fetched_,
                  encryption_key_map_, key, status, message, i,
                  sleep_duration, calls, num_runs, ok_runs,
                  failed_runs, key_src, seen >>

NotFoundStatus == Status("INTERNAL_ERROR", "Cannot find key of type")

\* Mutant: the entry is read with operator[] without the find before it.
LookupInserting(st, map, tt, out) ==
  IF ~StatusIsOk(st) THEN [status |-> st, key |-> out, map |-> map]
  ELSE IF tt \notin DOMAIN map
  THEN [status |-> StatusOK, key |-> NoKey, map |-> MapInsert(map, tt, NoKey)]
  ELSE [status |-> StatusOK, key |-> map[tt], map |-> map]

\* What GetKey returns, leaves in *key and leaves in encryption_key_map_,
\* from "if (!status.ok())" on.
Lookup(st, map, tt, out) ==
  IF ~StatusIsOk(st) THEN [status |-> st, key |-> out, map |-> map]
  ELSE IF tt \notin DOMAIN map
  THEN [status |-> NotFoundStatus, key |-> out, map |-> map]
  ELSE [status |-> StatusOK, key |-> map[tt], map |-> map]

\* if (!status.ok()) return status; ... return Status::OK;  for the
\* track_type the call was made with.
Return(t, tt) ==
  /\ ~crashed
  /\ pc[t] = "lookup"
  /\ \E l \in {Lookup(status[t], encryption_key_map_, tt, key[t])} :
       /\ key' = [key EXCEPT ![t] = l.key]
       /\ encryption_key_map_' = l.map
  /\ status' = [status EXCEPT ![t] = StatusOK]
  /\ seen' = [seen EXCEPT ![t] = NoneSeen]
  /\ pc' = [pc EXCEPT ![t] = "idle"]
  /\ UNCHANGED << dcheck_is_on, crashed, content_id_, key_fetched_, lock_,
                  message, i, sleep_duration, calls, num_runs, ok_runs,
                  failed_runs, run, key_src >>

Next ==
  \E t \in Threads :
    \/ Call(t)
    \/ Acquire(t)
    \/ Sign(t)
    \/ Post(t)
    \/ Sleep(t)
    \/ SetFetched(t)
    \/ Unlock(t)
    \/ \E tt \in ValidTrackTypes : Return(t, tt)

Spec == Init /\ [][Next]_vars

TypeOK ==
  /\ key_fetched_ \in BOOLEAN
  /\ lock_ \in 0..NumThreads
  /\ \A t \in Threads :
       pc[t] \in {"idle", "lock", "sign", "post", "sleep", "fetched",
                  "unlock", "lookup", "aborted"}

\* The steps of a GetKey call in progress on thread t; starting a call is
\* up to the caller.
Step(t) ==
  \/ Acquire(t)
  \/ Sign(t)
  \/ Post(t)
  \/ Sleep(t)
  \/ SetFetched(t)
  \/ Unlock(t)
  \/ \E tt \in ValidTrackTypes : Return(t, tt)

\* The program under fair scheduling: every signer call, Post and sleep
\* returns, a running thread keeps running, and a thread waiting for lock_
\* gets it if it is free again and again.
LiveSpec ==
  /\ Init
  /\ [][Next]_vars
  /\ \A t \in Threads : WF_vars(Step(t)) /\ SF_vars(Acquire(t))

\* A second specification, for the request signing alone: the object is
\* constructed with any of ContentIds and threads run GetKey up to the end
\* of SignRequest.
InitSign ==
  /\ dcheck_is_on \in BOOLEAN
  /\ crashed = FALSE
  /\ content_id_ \in ContentIds
  /\ key_fetched_ = FALSE
  /\ encryption_key_map_ = EmptyMap
  /\ lock_ = 0
  /\ pc = [t \in Threads |-> "idle"]
  /\ key = [t \in Threads |-> NoKey]
  /\ status = [t \in Threads |-> StatusOK]
  /\ message = [t \in Threads |-> NoMessage]
  /\ i = [t \in Threads |-> 0]
  /\ sleep_duration = [t \in Threads |-> 0]
  /\ calls = 0
  /\ num_runs = 0
  /\ ok_runs = 0
  /\ failed_runs = 0
  /\ run = [t \in Threads |-> NoRun]
  /\ key_src = EmptyMap
  /\ seen = [t \in Threads |-> NoneSeen]

NextSign ==
  \E t \in Threads :
    \/ Call(t)
    \/ Acquire(t)
    \/ Sign(t)

SignSpec == InitSign /\ [][NextSign]_vars

\* ------------------------------------------------------------------ claims
InFetchKeys(t) == pc[t] \in {"sign", "post", "sleep"}

RunEnded(t) == pc[t] = "fetched"

\* The reply whose license status is INTERNAL_ERROR, and the reply that
\* carries a well-formed OK license with one entry for each of SD, HD, AUDIO.
IsTransientReply(r) == r = ReplyOfLicense(TransientLicense)

IsValidReply(r) == r = ReplyOfLicense(ValidLicense)

AllTransient(replies) ==
  \A j \in 1..Len(replies) : IsTransientReply(replies[j])

BackoffDurations == << 1000, 2000, 4000, 8000 >>

\* Replies that are a transport failure, fail envelope decoding, carry a
\* non-transient non-OK status, or carry a license with an extraction defect
\* (no JSON, no status, no tracks, too few tracks, a malformed key, a
\* duplicate type, a foreign drm_type).
FatalReplies ==
  { TransportFailureReply, NotJsonReply, NoResponseFieldReply, BadBase64Reply,
    NotJsonLicenseReply }
  \cup { ReplyOfLicense(n) : n \in {FatalStatusLicense, 4, 6, 7, 8, 12, 13} }

C3_AllOrNothing ==
  \/ DOMAIN encryption_key_map_ = {}
  \/ /\ DOMAIN encryption_key_map_ = ValidTrackTypes
     /\ \A tt \in ValidTrackTypes :
          /\ encryption_key_map_[tt].key # << >>
          /\ encryption_key_map_[tt].key_id # << >>

\* C4: after a FetchKeys run that returned OK the map holds SD, HD and
\* AUDIO, and no GetKey call for a valid track type that got past the fetch
\* returns "Cannot find key of type".
C4_AllTypesAfterOk ==
  /\ ok_runs > 0 => ValidTrackTypes \subseteq DOMAIN encryption_key_map_
  /\ \A t \in Threads : \A tt \in ValidTrackTypes :
       pc[t] = "lookup" =>
         Lookup(status[t], encryption_key_map_, tt, key[t]).status
           # NotFoundStatus

\* C5: a run whose first k posts are answered INTERNAL_ERROR and whose next
\* post is answered with a valid OK license returns OK after k+1 posts and
\* k sleeps of 1000, 2000, 4000, 8000 ms.
C5_BackoffThenOk ==
  \A t \in Threads :
    LET replies == run[t].replies
        n == Len(replies)
    IN (/\ RunEnded(t) /\ n >= 1 /\ n <= 5
        /\ IsValidReply(replies[n])
        /\ AllTransient(SubSeq(replies, 1, n - 1)))
       => /\ StatusIsOk(status[t])
          /\ run[t].sleeps = SubSeq(BackoffDurations, 1, n - 1)

\* C6: a run in which every post is answered INTERNAL_ERROR makes exactly 5
\* posts and 4 sleeps (1000, 2000, 4000, 8000 ms, none after the 5th post),
\* returns the exhausted-retries failure, and never makes a 6th post.
C6_ExhaustedAfterFive ==
  \A t \in Threads :
    /\ (pc[t] = "post" /\ AllTransient(run[t].replies))
         => Len(run[t].replies) < 5
    /\ (pc[t] = "sleep" /\ AllTransient(run[t].replies))
         => Len(run[t].replies) < 5
    /\ (RunEnded(t) /\ run[t].signer_ok /\ AllTransient(run[t].replies))
         => /\ Len(run[t].replies) = 5
            /\ run[t].sleeps = BackoffDurations
            /\ status[t] = ExhaustedStatus

C6_Witness ==
  \E t \in Threads :
    RunEnded(t) /\ Len(run[t].replies) = 5 /\ AllTransient(run[t].replies)

C8_FetchedIsFinal ==
  [][key_fetched_ =>
       /\ key_fetched_'
       /\ num_runs' = num_runs
       /\ encryption_key_map_' = encryption_key_map_]_vars

\* A lookup has been served from the map after key_fetched_ was set, and
\* another call is at its lookup.
C8_Witness ==
  /\ key_fetched_
  /\ \E t \in Threads : pc[t] = "idle" /\ key[t] # NoKey
  /\ \E t \in Threads : pc[t] = "lookup"

\* C9: when the signer cannot sign, the run returns INTERNAL_ERROR without
\* any post or sleep, and leaves encryption_key_map_ and key_fetched_ as
\* they were.
C9_SignerFailure ==
  \A t \in Threads :
    (RunEnded(t) /\ ~run[t].signer_ok)
      => /\ status[t] = Status("INTERNAL_ERROR", "Signature generation failed.")
         /\ run[t].replies = << >>
         /\ run[t].sleeps = << >>
         /\ encryption_key_map_ = run[t].map0
         /\ key_fetched_ = FALSE

C9_Witness ==
  \E t \in Threads : RunEnded(t) /\ ~run[t].signer_ok

\* C10: the "request" field of the envelope Base64-decodes to exactly the
\* bytes given to GenerateSignature, which are FillRequest's output.
C10_RequestIsSignedBytes ==
  \A t \in Threads :
    pc[t] = "post" =>
      /\ Base64Decode(message[t].request) =
           [ok |-> TRUE, bytes |-> run[t].signed]
      /\ run[t].signed = FillRequest(content_id_)

C10_Witness ==
  \E t \in Threads :
    pc[t] = "post" /\ Len(content_id_) = 2 /\ message[t].signer = SignerName

ExtractFailedStatus ==
  Status("SERVER_ERROR", "Failed to extract encryption key.")

\* The reply to the last post of thread t's run is the one carrying license n.
LastReplyIs(t, n) ==
  /\ Len(run[t].replies) > 0
  /\ run[t].replies[Len(run[t].replies)] = ReplyOfLicense(n)

\* C11: a license with a track whose type label is unmapped does not crash
\* the process and ends the run with the fatal extraction failure; no entry
\* is ever stored under TRACK_TYPE_UNKNOWN.
C11_UnknownRejected ==
  /\ ~crashed
  /\ TRACK_TYPE_UNKNOWN \notin DOMAIN encryption_key_map_
  /\ \A t \in Threads :
       LastReplyIs(t, UnknownTypeLicense)
         => RunEnded(t) /\ status[t] = ExtractFailedStatus

\* C12: a license with two entries of the same valid type ends the run at
\* that attempt with the extraction SERVER_ERROR: no sleep and no further
\* post follow it.
C12_DuplicateFatal ==
  \A t \in Threads :
    LastReplyIs(t, DuplicateTypeLicense)
      => /\ RunEnded(t)
         /\ status[t] = ExtractFailedStatus
         /\ Len(run[t].sleeps) = Len(run[t].replies) - 1

\* A run that retried once and then got the license with two SD entries.
C12_Witness ==
  \E t \in Threads :
    /\ LastReplyIs(t, DuplicateTypeLicense) /\ RunEnded(t)
    /\ Len(run[t].replies) = 2

\* C13: a track whose "pssh" list has no entry, or two entries, makes the
\* extraction fail: the run ends with the extraction SERVER_ERROR and the
\* process does not stop.
C13_ExactlyOnePssh ==
  \A t \in Threads :
    (LastReplyIs(t, TwoPsshLicense) \/ LastReplyIs(t, NoPsshLicense))
      => RunEnded(t) /\ status[t] = ExtractFailedStatus

\* The tracks SD, HD, AUDIO of a license, well-formed but for the track at
\* pos, whose pssh entry has a drm_type that is not WIDEVINE.
ForeignDrmTracks(pos) ==
  [j \in 1..3 |->
     LET type == << "SD", "HD", "AUDIO" >>[j]
     IN IF j = pos
        THEN Track(type, Some(B64One), Some(B64Two), << Pssh("OTHER", B64Data) >>)
        ELSE GoodTrack(type)]

\* C14: a pssh entry whose drm_type is not WIDEVINE, on whichever track,
\* makes the extraction fail; the run that met it ends at that attempt with
\* the extraction SERVER_ERROR, with no sleep or post after it, and
\* key_fetched_ is false then and after GetKey's "if (status.ok())".
C14_ForeignDrmFatal ==
  /\ [](/\ \A pos \in 1..3 :
            LET r == ExtractTracks(ForeignDrmTracks(pos), 1,
                                   encryption_key_map_, dcheck_is_on)
            IN ~r.ok /\ ~r.crashed
        /\ \A t \in Threads :
            LastReplyIs(t, ForeignDrmLicense)
              => /\ RunEnded(t)
                 /\ status[t] = ExtractFailedStatus
                 /\ Len(run[t].sleeps) = Len(run[t].replies) - 1
                 /\ ~key_fetched_)
  /\ [][\A t \in Threads :
          LastReplyIs(t, ForeignDrmLicense) => ~key_fetched_']_vars

\* A run that retried once and then got the license with the foreign
\* drm_type.
C14_Witness ==
  \E t \in Threads :
    /\ LastReplyIs(t, ForeignDrmLicense) /\ RunEnded(t)
    /\ Len(run[t].replies) = 2 /\ run[t].sleeps = << 1000 >>

\* License texts on which ExtractEncryptionKey fails before it reads a
\* status: a text that is not JSON, and a dictionary without "status".
PreStatusTexts == { << 200 >>, LicenseText(12) }

NonOkStatusLicenses == { TransientLicense, FatalStatusLicense }

\* C15: on a license whose status is not OK, ExtractEncryptionKey returns
\* false, leaves encryption_key_map_ as it was and sets transient_error
\* exactly when the status is "INTERNAL_ERROR"; on a failure before the
\* status is read transient_error is false.  A run that has met only such
\* licenses has not changed the map.
C15_NonOkStatusFrame ==
  /\ \A n \in NonOkStatusLicenses :
       LET e == ExtractEncryptionKey(LicenseText(n), encryption_key_map_,
                                     dcheck_is_on)
       IN /\ ~e.ok /\ ~e.crashed
          /\ e.map = encryption_key_map_
          /\ e.transient_error = (LicenseTable[n].status.v = "INTERNAL_ERROR")
  /\ \A text \in PreStatusTexts :
       LET e == ExtractEncryptionKey(text, encryption_key_map_, dcheck_is_on)
       IN ~e.ok /\ ~e.transient_error /\ e.map = encryption_key_map_
  /\ \A t \in Threads :
       ( /\ InFetchKeys(t) \/ RunEnded(t)
         /\ \A j \in 1..Len(run[t].replies) :
              run[t].replies[j] \in
                { ReplyOfLicense(n) : n \in NonOkStatusLicenses \cup {12} }
                \cup { NotJsonLicenseReply } )
         => encryption_key_map_ = run[t].map0
  /\ \A t \in Threads :
       LastReplyIs(t, FatalStatusLicense)
         => RunEnded(t) /\ status[t] = ExtractFailedStatus

\* A run on a map that already holds an entry met INTERNAL_ERROR, slept,
\* and then met another non-OK status.
C15_Witness ==
  \E t \in Threads :
    /\ RunEnded(t)
    /\ run[t].replies = << ReplyOfLicense(TransientLicense),
                           ReplyOfLicense(FatalStatusLicense) >>
    /\ run[t].map0 # EmptyMap

\* The thread is between the second check and the end of the locked block.
InLockedBlock(t) == pc[t] \in {"sign", "post", "sleep", "fetched", "unlock"}

\* C16: at most one FetchKeys run is in progress at any time, and the thread
\* running it holds lock_ from the second check until after FetchKeys has
\* returned, through every post and sleep; while a run is in progress no
\* other caller is past the lock, and none reads encryption_key_map_.
C16_OneRunAtATime ==
  /\ \A t \in Threads : InLockedBlock(t) => lock_ = t
  /\ \A t, u \in Threads :
       (InFetchKeys(t) /\ u # t)
         => /\ ~InLockedBlock(u)
            /\ ~(pc[u] = "lookup" /\ StatusIsOk(status[u]))

\* One caller is sleeping between two posts while the other waits for the
\* lock.
C16_Witness ==
  \E t, u \in Threads :
    /\ pc[t] = "sleep" /\ Len(run[t].replies) = 2
    /\ pc[u] = "lock"

\* C17: under fair scheduling every GetKey call eventually returns, and
\* no run makes more than 5 posts or 4 sleeps.
C17_EveryCallReturns ==
  /\ [](\A t \in Threads :
          Len(run[t].replies) <= 5 /\ Len(run[t].sleeps) <= 4)
  /\ \A t \in Threads : (pc[t] # "idle") ~> (pc[t] = "idle")

\* C18: a run whose last post is answered with the valid OK license returns
\* OK, whatever earlier runs on the object did.
C18_RunIndependent ==
  \A t \in Threads :
    (RunEnded(t) /\ LastReplyIs(t, ValidLicense)) => StatusIsOk(status[t])

\* C19: whenever a GetKey call is about to return from the map with an OK
\* status, all entries of encryption_key_map_ were stored by the same
\* FetchKeys run (a run stores entries from one response only).
C19_OneResponse ==
  \A t \in Threads :
    (pc[t] = "lookup" /\ StatusIsOk(status[t]))
      => \A x, y \in DOMAIN key_src : key_src[x] = key_src[y]

\* C20: for a call at the end of GetKey and each track type it may have
\* been made with: the lookup leaves encryption_key_map_ as it is, a non-OK
\* return leaves *key as the caller passed it, and an OK return sets *key to
\* the stored entry of that type.  The step that returns changes *key only
\* to a stored entry and only when the fetch status is OK, and never changes
\* the map.
C20_OutputOnlyOnOk ==
  /\ [](\A t \in Threads : \A tt \in ValidTrackTypes :
          pc[t] = "lookup" =>
            LET l == Lookup(status[t], encryption_key_map_, tt, key[t])
            IN /\ l.map = encryption_key_map_
               /\ ~StatusIsOk(l.status) => l.key = key[t]
               /\ ~StatusIsOk(status[t]) => l.status = status[t]
               /\ StatusIsOk(l.status) =>
                    /\ tt \in DOMAIN encryption_key_map_
                    /\ l.key = encryption_key_map_[tt])
  /\ [][\A t \in Threads :
          (pc[t] = "lookup" /\ pc'[t] = "idle") =>
            /\ encryption_key_map_' = encryption_key_map_
            /\ key'[t] # key[t] =>
                 /\ StatusIsOk(status[t])
                 /\ \E tt \in ValidTrackTypes :
                      /\ tt \in DOMAIN encryption_key_map_
                      /\ key'[t] = encryption_key_map_[tt]]_vars

\* One call has returned a stored key and another, past the fetch with an
\* OK status, is about to look up a map that has no AUDIO entry.
C20_Witness ==
  /\ \E t \in Threads : pc[t] = "idle" /\ key[t] # NoKey
  /\ \E t \in Threads :
       /\ pc[t] = "lookup" /\ StatusIsOk(status[t])
       /\ TRACK_TYPE_AUDIO \notin DOMAIN encryption_key_map_

====
